---- MODULE Spec2Model ----
(***************************************************************************)
(* ModularGuard GitHub Action: one run of the action (src/src/index.ts     *)
(* entry point, src/src/run.ts `run`, and the helpers of github.ts that    *)
(* are concatenated into src/src/index.ts), as a sequential state machine  *)
(* whose steps are the awaited calls of `run`.  GitHub (pull requests,     *)
(* issue comments, check runs), the tool cache and the ModularGuard        *)
(* binary are the environment: every call to them may succeed or throw.    *)
(***************************************************************************)
EXTENDS Integers, Sequences, FiniteSets, TLC

VARIABLES
  pc,               \* position of the run: the next awaited step
  runNo,            \* number of the current run of the action on this repository
  versionInput,     \* inputs.modularguardVersion
  pulls,            \* pull requests associated with the commit, in listing order
  pullIdx,          \* index into pulls of the PR the comment loop is at
  result,           \* parsed analysis result with workspace-relative paths, or NoResult
  exitCode,         \* exit code of the ModularGuard subprocess (-1: not run)
  stdout,           \* what the subprocess has written to its standard output
  existingComment,  \* what findExistingComment returned for the current PR
  comments,         \* GitHub: the issue comments of every pull request
  nextId,           \* GitHub: id the next created comment gets
  cache,            \* tool cache: the (version, arch) keys stored by tc.cacheDir
  checkRun,         \* payload of the checks.create request of this run, or NoCheckRun
  outputs,          \* the workflow outputs set by core.setOutput, or NoOutputs
  failed,           \* number of core.setFailed calls of this run
  failMessage,      \* message of the last core.setFailed call
  warnings,         \* number of core.warning calls of this run
  console,          \* violations printed by printViolationsToConsole
  reported,         \* printViolationsToConsole has run
  decided,          \* the pass/fail decision (run.ts 327-335) has been taken
  log,              \* the network and subprocess calls of this run, in order
  runUrl,           \* the URL of the workflow run that is passed to formatComment
  commentBody,      \* the comment body formatComment has returned last (<<>>: none)
  processArch,      \* process.arch as getArch has read it last ("": not yet)
  acquired,         \* history: the (version input, arch) pairs a run has downloaded and cached
  pathCall,         \* arguments and return values of toWorkspaceRelativePath on its own
  initial,          \* history: the comments of the pull requests before the first run
  apiFailed,        \* history: some call of this or an earlier run has failed
  published         \* history: per pull request, the comment writes that have succeeded

vars == <<pc, runNo, versionInput, pulls, pullIdx, result, exitCode, stdout, existingComment,
          comments, nextId, cache, checkRun, outputs, failed, failMessage, warnings,
          console, reported, decided, log, runUrl, commentBody, pathCall, processArch,
          acquired, initial, apiFailed, published>>

(***************************************************************************)
(* Bounds of the model and constants of the program.                       *)
(***************************************************************************)
MaxRuns == 2

AnnotationLimit == 50

PerPage == 30

Marker == "<!-- modularguard-results -->"

MaxPulls == 2

MaxCount == 1

MaxRows == 2

MaxSegs == 2

PRs == 1..MaxPulls

\* listings of repos.listPullRequestsAssociatedWithCommit
PullLists == {[i \in 1..k |-> i] : k \in 0..MaxPulls}

VersionInputs == {"latest", "1.2.0"}

LatestVersion == "1.3.0"

ProcessPlatforms == {"linux", "win32", "freebsd"}

ProcessArchs == {"x64", "ia32"}

ViolationCounts == {0, 1, 2, 50, 51, 52}

Counts == 0..MaxCount

SeverityCycle == <<"Warning", "Error", "error", "Info", "WARNING", "">>

Min(a, b) == IF a < b THEN a ELSE b

(***************************************************************************)
(* Strings.  A text is a sequence of one-character strings; a path is a    *)
(* record of an absolute flag and its '/'-separated segments, each segment *)
(* the sequence of its '\'-separated parts (POSIX: '\' is no separator).   *)
(***************************************************************************)
RECURSIVE Flatten(_)
Flatten(ss) == IF ss = <<>> THEN <<>> ELSE Head(ss) \o Flatten(Tail(ss))

RECURSIVE Repeat(_, _)
Repeat(x, n) == IF n <= 0 THEN <<>> ELSE <<x>> \o Repeat(x, n - 1)

\* String.prototype.toLowerCase on the severities the binary is given here
ToLowerCase(s) ==
  CASE s \in {"Error", "ERROR", "error"} -> "error"
    [] s \in {"Warning", "WARNING", "warning"} -> "warning"
    [] s \in {"Info", "INFO", "info"} -> "info"
    [] OTHER -> s

\* description.replace(/\n/g, ' ')
ReplaceNewlines(text) == [i \in 1..Len(text) |-> IF text[i] = "\n" THEN " " ELSE text[i]]

\* String.prototype.substring(0, n)
Substring(text, n) == SubSeq(text, 1, Min(Len(text), n))

WorkspaceRoot == [abs |-> TRUE, segs |-> <<<<"ws">>>>]

Cwd == [abs |-> TRUE, segs |-> <<<<"ws">>>>]

\* path.resolve: '.' and '..' segments are resolved, relative paths start at the cwd
RECURSIVE NormalizeSegs(_, _)
NormalizeSegs(segs, acc) ==
  IF segs = <<>> THEN acc
  ELSE IF Head(segs) = <<".">> \/ Head(segs) = <<"">> THEN NormalizeSegs(Tail(segs), acc)
  ELSE IF Head(segs) = <<"..">>
       THEN NormalizeSegs(Tail(segs), IF acc = <<>> THEN acc ELSE SubSeq(acc, 1, Len(acc) - 1))
  ELSE NormalizeSegs(Tail(segs), Append(acc, Head(segs)))

Resolve(p) == NormalizeSegs(IF p.abs THEN p.segs ELSE Cwd.segs \o p.segs, <<>>)

RECURSIVE CommonPrefix(_, _)
CommonPrefix(a, b) ==
  IF a = <<>> \/ b = <<>> \/ Head(a) # Head(b) THEN 0
  ELSE 1 + CommonPrefix(Tail(a), Tail(b))

\* path.relative(from, to)
PathRelative(from, to) ==
  LET f == Resolve(from)
      t == Resolve(to)
      k == CommonPrefix(f, t)
  IN  [abs |-> FALSE, segs |-> Repeat(<<"..">>, Len(f) - k) \o SubSeq(t, k + 1, Len(t))]

\* relativePath.replace(/\\/g, '/'): every '\'-separated part becomes a segment
ToWorkspaceRelativePath(absolutePath, workspaceRoot) ==
  LET rel == PathRelative(workspaceRoot, absolutePath)
      parts == Flatten(rel.segs)
  IN  [abs |-> FALSE, segs |-> [i \in 1..Len(parts) |-> <<parts[i]>>]]

\* the path as text: its parts joined by the separators
RECURSIVE JoinSeg(_)
JoinSeg(seg) ==
  IF seg = <<>> THEN <<>>
  ELSE IF Len(seg) = 1 THEN seg
  ELSE <<Head(seg), "\\">> \o JoinSeg(Tail(seg))

RECURSIVE JoinSegs(_)
JoinSegs(segs) ==
  IF segs = <<>> THEN <<>>
  ELSE IF Len(segs) = 1 THEN JoinSeg(Head(segs))
  ELSE JoinSeg(Head(segs)) \o <<"/">> \o JoinSegs(Tail(segs))

\* no call of toWorkspaceRelativePath on its own has been made
NoPathCall == [absolutePath |-> WorkspaceRoot, workspaceRoot |-> WorkspaceRoot, returned |-> <<>>]

PathText(p) == (IF p.abs THEN <<"/">> ELSE <<>>) \o JoinSegs(p.segs)

(***************************************************************************)
(* The analysis result (run.ts 21-58) and what the binary can print.       *)
(***************************************************************************)
NoSuggestion == [defined |-> FALSE, value |-> <<>>]

\* the value of a field the parsed JSON document does not have: JSON.parse casts
\* the document to ModularGuardResult without looking at its violations
Undefined == "<undefined>"

\* a value inside a template literal
Text(value) == IF value = Undefined THEN "undefined" ELSE value

\* the i-th violation the binary reports
Violation(i) ==
  [severity |-> SeverityCycle[((i - 1) % Len(SeverityCycle)) + 1],
   projectName |-> IF i % 2 = 1 THEN "Orders.Api" ELSE "Billing.Core",
   invalidReference |-> "Shared.Infra",
   ruleName |-> "NoCrossModule",
   description |-> IF i % 2 = 1 THEN <<"b", "a", "d">> ELSE <<"n", "o", "\n", "r", "e", "f">>,
   suggestion |-> IF i % 3 = 1 THEN [defined |-> TRUE, value |-> <<"f", "i", "x">>] ELSE NoSuggestion,
   filePath |-> IF i % 2 = 1
                THEN [abs |-> TRUE, segs |-> <<<<"ws">>, <<"src">>, <<"a.csproj">>>>]
                ELSE [abs |-> TRUE, segs |-> <<<<"ws">>, <<"src", "b.csproj">>>>],
   lineNumber |-> i,
   columnNumber |-> 1]

Violations(n) == [i \in 1..n |-> Violation(i)]

Summary(e, w) ==
  [totalModules |-> 3, totalProjects |-> 15, errorCount |-> e, warningCount |-> w,
   isValid |-> (e = 0)]

NoResult == [summary |-> Summary(0, 0), violations |-> <<>>, parsed |-> FALSE]

\* stdout of the binary: empty, not JSON, or a JSON document whose three
\* top-level fields may each be missing
Stdout(kind, hs, hm, hv, e, w, n) ==
  [kind |-> kind, hasSummary |-> hs, hasModules |-> hm, hasViolations |-> hv,
   summary |-> Summary(e, w), violations |-> Violations(n)]

ValidStdouts ==
  {Stdout("json", TRUE, TRUE, TRUE, e, w, n) : e \in Counts, w \in Counts, n \in ViolationCounts}

InvalidStdouts ==
  {Stdout("empty", FALSE, FALSE, FALSE, 0, 0, 0),
   Stdout("text", FALSE, FALSE, FALSE, 0, 0, 0),
   Stdout("json", FALSE, TRUE, TRUE, 0, 0, 0),
   Stdout("json", TRUE, FALSE, TRUE, 0, 0, 0),
   Stdout("json", TRUE, TRUE, FALSE, 0, 0, 0)}

\* a document that passes the validation gate and whose one violation has no severity
StdoutWithoutSeverity ==
  [Stdout("json", TRUE, TRUE, TRUE, 0, 1, 1)
     EXCEPT !.violations = <<[Violation(1) EXCEPT !.severity = Undefined]>>]

Stdouts == ValidStdouts \cup {StdoutWithoutSeverity} \cup InvalidStdouts

\* `let stdout = ''` (run.ts 396)
NoStdout == Stdout("empty", FALSE, FALSE, FALSE, 0, 0, 0)

(***************************************************************************)
(* github.ts (in src/src/index.ts): formatting and publication helpers.    *)
(* A comment body and a check-run summary are sequences of lines, a line a *)
(* sequence of tokens.                                                     *)
(***************************************************************************)
RunUrl == "https://github.com/o/r/actions/runs/1"

\* the outcome of a call that throws a TypeError instead of returning
TypeError == "TypeError"

\* mapSeverityToLevel (index.ts 396-405): severity.toLowerCase() throws when the
\* severity is undefined
mapSeverityToLevel(severity) ==
  IF severity = Undefined THEN TypeError
  ELSE CASE ToLowerCase(severity) = "error" -> "failure"
         [] ToLowerCase(severity) = "warning" -> "warning"
         [] OTHER -> "notice"

\* one row of the violations table (index.ts 266-274)
TableRow(violation) ==
  LET severityIcon == IF violation.severity = "Error" THEN ":red_circle:" ELSE ":warning:"
      fileLocation == <<"<code>">> \o PathText(violation.filePath)
                        \o <<":", ToString(violation.lineNumber), "</code>">>
      description == Substring(ReplaceNewlines(violation.description), 100)
  IN  <<"|", severityIcon, Text(violation.severity), "|">> \o fileLocation
        \o <<"|", violation.projectName, "|", violation.invalidReference, "|">>
        \o description \o <<"|">>

\* a filter that keeps every violation that has a suggestion field, empty or not
WithDefinedSuggestions(violations) == SelectSeq(violations, LAMBDA v : v.suggestion.defined)

\* violations.filter((v) => v.suggestion)
WithSuggestions(violations) ==
  SelectSeq(violations, LAMBDA v : v.suggestion.defined /\ v.suggestion.value # <<>>)

SuggestionLines(violations) ==
  Flatten([i \in 1..Len(violations) |->
             <<<<"**", violations[i].projectName, "->", violations[i].invalidReference, "**">>,
               violations[i].suggestion.value, <<>>>>])

\* a status line that looks at the warnings first
StatusLineWarningsFirst(summary) ==
  IF summary.warningCount > 0 THEN <<":warning:", "**Analysis Passed with Warnings**">>
  ELSE IF summary.errorCount > 0 THEN <<":x:", "**Analysis Failed**">>
  ELSE <<":white_check_mark:", "**Analysis Passed**">>

\* the status badge (index.ts 238-239, 244-251)
StatusLine(summary) ==
  LET hasErrors == summary.errorCount > 0
      hasWarnings == summary.warningCount > 0
  IN  IF hasErrors THEN <<":x:", "**Analysis Failed**">>
      ELSE IF hasWarnings THEN <<":warning:", "**Analysis Passed with Warnings**">>
      ELSE <<":white_check_mark:", "**Analysis Passed**">>

\* the heading and the four rows of the violations table
TableHead ==
  <<<<"### Violations">>, <<>>,
    <<"|", "Severity", "|", "File:Line", "|", "Project", "|", "Invalid Reference", "|",
      "Description", "|">>,
    <<"|", "---", "|", "---", "|", "---", "|", "---", "|", "---", "|">>>>

\* the suggestions block (index.ts 278-287)
SuggestionsSection(violations) ==
  LET violationsWithSuggestions == WithSuggestions(violations)
  IN  IF Len(violationsWithSuggestions) > 0
      THEN <<<<"<details>">>, <<"<summary>", "Suggestions", "</summary>">>, <<>>>>
           \o SuggestionLines(violationsWithSuggestions) \o <<<<"</details>">>, <<>>>>
      ELSE <<>>

\* a violations section that is rendered for an empty list too
ViolationsSectionAlways(violations) ==
  TableHead \o [i \in 1..Len(violations) |-> TableRow(violations[i])] \o <<<<>>>>
    \o SuggestionsSection(violations)

\* the violations table and the suggestions (index.ts 260-288)
ViolationsSection(violations) ==
  IF Len(violations) > 0
  THEN TableHead \o [i \in 1..Len(violations) |-> TableRow(violations[i])] \o <<<<>>>>
         \o SuggestionsSection(violations)
  ELSE <<>>

\* a link that is appended whether or not a URL is passed
LinkLinesAlways(url) ==
  <<<<"---">>, <<>>, <<"[View detailed results](", Text(url.value), ")">>>>

\* `if (runUrl)` (index.ts 290-292): undefined and the empty string are falsy
LinkLines(url) ==
  IF url.defined /\ url.value # ""
  THEN <<<<"---">>, <<>>, <<"[View detailed results](", url.value, ")">>>>
  ELSE <<>>

\* a formatter that starts with the title and leaves the marker out
formatCommentWithoutMarker(res, url) ==
  <<<<"## ModularGuard Analysis Results">>, <<>>, StatusLine(res.summary), <<>>>>
    \o ViolationsSection(res.violations)
    \o LinkLines(url)

\* formatComment(result, runUrl); url.defined is FALSE when no URL is passed
formatComment(res, url) ==
  LET summary == res.summary
      violations == res.violations
  IN  <<<<Marker>>, <<>>, <<"## ModularGuard Analysis Results">>, <<>>,
        StatusLine(summary), <<>>,
        <<"### Summary">>, <<>>,
        <<"- **Total Modules:**", ToString(summary.totalModules)>>,
        <<"- **Total Projects:**", ToString(summary.totalProjects)>>,
        <<"- **Errors:**", ToString(summary.errorCount)>>,
        <<"- **Warnings:**", ToString(summary.warningCount)>>, <<>>>>
      \o ViolationsSection(violations)
      \o LinkLines(url)

\* comment.body?.includes(marker)
BodyIncludesMarker(body) == \E i \in 1..Len(body) : \E j \in 1..Len(body[i]) : body[i][j] = Marker

\* issues.listComments without pagination: the first page of the comments of the PR
ListComments(all) == SubSeq(all, 1, Min(Len(all), PerPage))

NoComment == [isNull |-> TRUE, id |-> 0]

\* comments.find(...) and `existing ? { id: existing.id } : null` (index.ts 223-226)
FirstWithMarker(listing) ==
  LET hits == {i \in 1..Len(listing) : listing[i].hasBody /\ BodyIncludesMarker(listing[i].body)}
  IN  IF hits = {} THEN NoComment
      ELSE [isNull |-> FALSE, id |-> listing[CHOOSE i \in hits : \A j \in hits : i <= j].id]

\* existingComment?.id
OptionalId(existing) ==
  IF existing.isNull THEN [defined |-> FALSE, value |-> 0]
  ELSE [defined |-> TRUE, value |-> existing.id]

\* `if (existingCommentId)` (index.ts 309): undefined and 0 are falsy
IsTruthyId(existingCommentId) == existingCommentId.defined /\ existingCommentId.value # 0

\* annotations without the cap
AnnotationsUncapped(violations) ==
  [i \in 1..Len(violations) |->
     [path |-> violations[i].filePath,
      start_line |-> violations[i].lineNumber,
      end_line |-> violations[i].lineNumber,
      start_column |-> violations[i].columnNumber,
      end_column |-> violations[i].columnNumber,
      annotation_level |-> mapSeverityToLevel(violations[i].severity),
      message |-> violations[i].description,
      title |-> <<violations[i].ruleName, ":", violations[i].projectName, "->",
                  violations[i].invalidReference>>]]

\* violations.slice(0, 50).map(...) (index.ts 359-368)
Annotations(violations) ==
  LET shown == SubSeq(violations, 1, Min(Len(violations), AnnotationLimit))
  IN  [i \in 1..Len(shown) |->
         [path |-> shown[i].filePath,
          start_line |-> shown[i].lineNumber,
          end_line |-> shown[i].lineNumber,
          start_column |-> shown[i].columnNumber,
          end_column |-> shown[i].columnNumber,
          annotation_level |-> mapSeverityToLevel(shown[i].severity),
          message |-> shown[i].description,
          title |-> <<shown[i].ruleName, ":", shown[i].projectName, "->",
                      shown[i].invalidReference>>]]

\* the summary text of the check run (index.ts 345-356, 370-372)
SummaryText(res) ==
  LET summary == res.summary
      n == Len(res.violations)
  IN  <<<<"## ModularGuard Analysis">>, <<>>,
        <<"**Total Modules:**", ToString(summary.totalModules)>>,
        <<"**Total Projects:**", ToString(summary.totalProjects)>>,
        <<"**Errors:**", ToString(summary.errorCount)>>,
        <<"**Warnings:**", ToString(summary.warningCount)>>, <<>>>>
      \o (IF n > 0
          THEN <<<<"Found", ToString(n), "violation(s).">>, <<>>,
                 <<"See annotations on the Files Changed tab for details.">>>>
          ELSE <<<<"No violations found!">>>>)
      \o (IF n > AnnotationLimit
          THEN <<<<>>, <<>>,
                 <<"Note: Only showing the first 50 annotations.", ToString(n - AnnotationLimit),
                   "additional violation(s) not shown.">>>>
          ELSE <<>>)

NoCheckRun == [sent |-> FALSE, conclusion |-> "", summary |-> <<>>, annotations |-> <<>>]

\* a conclusion that counts warnings as failures too
ConclusionCountingWarnings(summary) ==
  IF summary.errorCount > 0 \/ summary.warningCount > 0 THEN "failure" ELSE "success"

\* const conclusion = summary.errorCount > 0 ? 'failure' : 'success' (index.ts 342)
Conclusion(summary) == IF summary.errorCount > 0 THEN "failure" ELSE "success"

\* the request body of checks.create (index.ts 341-342, 375-387)
CheckRunPayload(res) ==
  [sent |-> TRUE,
   conclusion |-> Conclusion(res.summary),
   summary |-> SummaryText(res),
   annotations |-> Annotations(res.violations)]

\* printViolationsToConsole (run.ts 353-380): one entry per violation
ConsoleEntries(violations) ==
  [i \in 1..Len(violations) |->
     [icon |-> IF violations[i].severity = "Error" THEN ":red_circle:" ELSE ":warning:",
      severity |-> Text(violations[i].severity),
      lineNumber |-> violations[i].lineNumber]]

(***************************************************************************)
(* GitHub at the start: the comments the pull requests already have.       *)
(***************************************************************************)
HumanBody == <<<<"LGTM">>>>

\* the comment a previous run of the action left
PreviousBody ==
  formatComment([summary |-> Summary(0, 0), violations |-> <<>>, parsed |-> TRUE],
                [defined |-> TRUE, value |-> RunUrl])

\* a comment of a person that quotes the marker in the middle of its text
QuoteBody == <<<<"see">>, <<"the", Marker, "comment">>>>

InitialShapes ==
  {<<>>, <<"bot">>, <<"human", "quote", "bot">>, Repeat("human", PerPage)}

FirstIds == {0, 1}

InitialComments(shape, firstId) ==
  [p \in PRs |->
     [i \in 1..Len(shape) |->
        [id |-> firstId + (p - 1) * Len(shape) + (i - 1),
         hasBody |-> TRUE,
         body |-> IF shape[i] = "bot" THEN PreviousBody
                  ELSE IF shape[i] = "quote" THEN QuoteBody
                  ELSE HumanBody]]]

NoOutputs ==
  [set |-> FALSE, violationsCount |-> 0, errorCount |-> 0, warningCount |-> 0, status |-> ""]

RunStart ==
  /\ pc = "entry"
  /\ versionInput = ""
  /\ pulls = <<>>
  /\ pullIdx = 0
  /\ result = NoResult
  /\ exitCode = -1
  /\ stdout = NoStdout
  /\ existingComment = NoComment
  /\ checkRun = NoCheckRun
  /\ outputs = NoOutputs
  /\ failed = 0
  /\ failMessage = <<>>
  /\ warnings = 0
  /\ console = <<>>
  /\ reported = FALSE
  /\ decided = FALSE
  /\ log = <<>>
  /\ runUrl = [defined |-> TRUE, value |-> RunUrl]
  /\ commentBody = <<>>
  /\ pathCall = NoPathCall
  /\ processArch = ""

Init ==
  /\ RunStart
  /\ runNo = 1
  /\ cache = {}
  /\ acquired = {}
  /\ apiFailed = FALSE
  /\ published = [p \in PRs |-> 0]
  /\ \E shape \in InitialShapes, firstId \in FirstIds :
       /\ comments = InitialComments(shape, firstId)
       /\ initial = InitialComments(shape, firstId)
       /\ nextId = IF firstId + Cardinality(PRs) * Len(shape) < 1 THEN 1
                   ELSE firstId + Cardinality(PRs) * Len(shape)

Call(op, pr, id, ok) == [op |-> op, pr |-> pr, id |-> id, ok |-> ok]

\* a catch that prints the error and ends the run without marking it failed
CatchAndPrint(message) ==
  /\ failed' = failed
  /\ failMessage' = failMessage
  /\ pc' = "done"

\* the catch of the entry point (index.ts 15-18): core.setFailed(e), and the run ends
Catch(message) ==
  /\ failed' = failed + 1
  /\ failMessage' = message
  /\ pc' = "done"

runState == <<versionInput, pulls, pullIdx, result, exitCode, existingComment, checkRun,
              outputs, warnings, console, reported, decided, runUrl, commentBody, stdout,
              pathCall>>

github == <<comments, nextId>>

\* history: a failed call of this run is remembered
TrackFailures ==
  /\ apiFailed' = (apiFailed \/ \E i \in 1..Len(log') : ~log'[i].ok)
  /\ UNCHANGED initial

(***************************************************************************)
(* The steps of one run.                                                   *)
(***************************************************************************)
\* index.ts 5-14: read the inputs, build the context, call run
Entry ==
  /\ pc = "entry"
  /\ \E version \in VersionInputs, tokenGiven \in BOOLEAN, envGiven \in BOOLEAN :
       /\ versionInput' = version
       /\ \/ /\ ~tokenGiven
             /\ Catch(<<"Input required and not supplied: token">>)
          \/ /\ tokenGiven /\ ~envGiven
             /\ Catch(<<"GITHUB_SHA is required">>)
          \/ /\ tokenGiven /\ envGiven
             /\ pc' = "listPulls"
             /\ UNCHANGED <<failed, failMessage>>
  /\ UNCHANGED <<processArch, acquired, pathCall, runUrl, commentBody, stdout,
                 runNo, pulls, pullIdx, result, exitCode, existingComment, checkRun, outputs,
                 warnings, console, reported, decided, log, cache, github, published>>
  /\ TrackFailures

\* the earlier version (run.ts 71-74): without pull requests the run returns at once
ReturnWithoutPulls(listing) == IF Len(listing) = 0 THEN "done" ELSE "download"

\* run.ts 262-272: with or without associated pull requests the run goes on to
\* acquire the binary
AfterListPulls(listing) == "download"

\* run.ts 255-270: find the pull requests associated with the commit
ListPulls ==
  /\ pc = "listPulls"
  /\ \E ok \in BOOLEAN :
       /\ log' = Append(log, Call("repos.listPullRequestsAssociatedWithCommit", 0, 0, ok))
       /\ \/ /\ ok
             /\ \E listing \in PullLists :
                  /\ pulls' = listing
                  /\ pc' = AfterListPulls(listing)
             /\ UNCHANGED <<failed, failMessage>>
          \/ /\ ~ok
             /\ Catch(<<"HttpError">>)
             /\ UNCHANGED pulls
  /\ UNCHANGED <<processArch, acquired, pathCall, runUrl, commentBody, stdout,
                 runNo, versionInput, pullIdx, result, exitCode, existingComment, checkRun,
                 outputs, warnings, console, reported, decided, cache, github, published>>
  /\ TrackFailures

\* getPlatform, getArch (index.ts 171-196)
Supported(platform, arch) == platform \in {"linux", "darwin", "win32"} /\ arch \in {"x64", "arm64"}

\* tc.find('modularguard', version, arch) (index.ts 102)
CacheHit(version, arch) == [version |-> version, arch |-> arch] \in cache

\* run.ts 272-274, downloadModularGuard (index.ts 97-147), getLatestVersion (152-166)
Download ==
  /\ pc = "download"
  /\ \E platform \in ProcessPlatforms, arch \in ProcessArchs :
       /\ processArch' = arch
       /\ \/ /\ ~Supported(platform, arch)
             /\ Catch(<<"Unsupported platform or architecture">>)
             /\ UNCHANGED <<log, cache, acquired>>
          \/ /\ Supported(platform, arch)
             /\ CacheHit(versionInput, arch)
             /\ pc' = "execute"
             /\ UNCHANGED <<log, cache, acquired, failed, failMessage>>
          \/ /\ Supported(platform, arch)
             /\ ~CacheHit(versionInput, arch)
             /\ LET lookup == IF versionInput = "latest"
                              THEN <<Call("repos.getLatestRelease", 0, 0, TRUE)>> ELSE <<>>
                    resolvedVersion == IF versionInput = "latest" THEN LatestVersion
                                       ELSE versionInput
                IN  \/ /\ versionInput = "latest"
                       /\ log' = Append(log, Call("repos.getLatestRelease", 0, 0, FALSE))
                       /\ Catch(<<"Failed to fetch latest ModularGuard version">>)
                       /\ UNCHANGED <<cache, acquired>>
                    \/ /\ log' = log \o lookup \o <<Call("tc.downloadTool", 0, 0, FALSE)>>
                       /\ Catch(<<"Failed to download ModularGuard">>)
                       /\ UNCHANGED <<cache, acquired>>
                    \/ /\ log' = log \o lookup \o <<Call("tc.downloadTool", 0, 0, TRUE)>>
                       /\ \/ /\ Catch(<<"Failed to download ModularGuard">>)
                             /\ UNCHANGED <<cache, acquired>>
                          \/ /\ cache' = cache \cup {[version |-> resolvedVersion, arch |-> arch]}
                             /\ acquired' = acquired \cup {[version |-> versionInput, arch |-> arch]}
                             /\ pc' = "execute"
                             /\ UNCHANGED <<failed, failMessage>>
  /\ UNCHANGED <<runNo, runState, github, published>>
  /\ TrackFailures

\* result.violations.map(... toWorkspaceRelativePath ...) (run.ts 285-294)
WithRelativePaths(violations) ==
  [i \in 1..Len(violations) |->
     [violations[i] EXCEPT !.filePath = ToWorkspaceRelativePath(@, WorkspaceRoot)]]

\* the validation gate of executeModularGuard (run.ts 420-430)
IsValidOutput(out) ==
  out.kind = "json" /\ out.hasSummary /\ out.hasModules /\ out.hasViolations

ExitCodes == {0, 1}

\* a run that takes the output only from a subprocess that has exited with zero
ProceedsOnZeroExit(out, code) == IsValidOutput(out) /\ code = 0

\* executeModularGuard returns the parsed result (run.ts 396-432): ignoreReturnCode is
\* set and the exit code is only logged
Proceeds(out, code) == IsValidOutput(out)

\* a run that sets the outputs right after the execution, pull requests or not
AfterExecuteOutputsFirst(listing) == "setOutputs"

\* run.ts 262, 299, 317-321: publication only in PR context
AfterExecute(listing) == IF Len(listing) > 0 THEN "checkRun" ELSE "setOutputs"

\* run.ts 276-297 and executeModularGuard (run.ts 385-439): run the binary, parse
\* and validate its stdout, rewrite the paths, print the console report
Execute(outs) ==
  /\ pc = "execute"
  /\ \E spawned \in BOOLEAN :
       /\ log' = Append(log, Call("exec", 0, 0, spawned))
       /\ \/ /\ ~spawned
             /\ Catch(<<"Failed to execute ModularGuard">>)
             /\ UNCHANGED <<result, exitCode, stdout, console, reported>>
          \/ /\ spawned
             /\ \E code \in ExitCodes, out \in outs :
                  /\ exitCode' = code
                  /\ stdout' = out
                  /\ \/ /\ out.kind = "empty"
                        /\ Catch(<<"ModularGuard produced no output">>)
                        /\ UNCHANGED <<result, console, reported>>
                     \/ /\ out.kind = "text"
                        /\ Catch(<<"Failed to parse ModularGuard output:", "Unexpected token">>)
                        /\ UNCHANGED <<result, console, reported>>
                     \/ /\ out.kind = "json" /\ ~Proceeds(out, code)
                        /\ Catch(<<"Failed to parse ModularGuard output:",
                                   "Invalid ModularGuard output: missing required fields">>)
                        /\ UNCHANGED <<result, console, reported>>
                     \/ /\ Proceeds(out, code)
                        /\ result' = [summary |-> out.summary,
                                      violations |-> WithRelativePaths(out.violations),
                                      parsed |-> TRUE]
                        /\ console' = ConsoleEntries(WithRelativePaths(out.violations))
                        /\ reported' = TRUE
                        /\ pc' = AfterExecute(pulls)
                        /\ UNCHANGED <<failed, failMessage>>
  /\ UNCHANGED <<processArch, acquired, pathCall, runUrl, commentBody,
                 runNo, versionInput, pulls, pullIdx, existingComment, checkRun, outputs,
                 warnings, decided, cache, github, published>>
  /\ TrackFailures

\* the map callback of index.ts 359-368 has thrown for one of the violations
MapThrows(annotations) ==
  \E i \in 1..Len(annotations) : annotations[i].annotation_level = TypeError

\* run.ts 299-301, createCheckRun (index.ts 334-391): the payload is built first, and
\* an exception of the mapping leaves the function before the request is made
CreateCheckRun ==
  /\ pc = "checkRun"
  /\ IF MapThrows(Annotations(result.violations))
     THEN /\ Catch(<<"TypeError:", "Cannot read properties of undefined">>)
          /\ UNCHANGED <<checkRun, log, pullIdx>>
     ELSE /\ checkRun' = CheckRunPayload(result)
          /\ \E ok \in BOOLEAN :
               /\ log' = Append(log, Call("checks.create", 0, 0, ok))
               /\ \/ /\ ok
                     /\ pullIdx' = 1
                     /\ pc' = "findComment"
                     /\ UNCHANGED <<failed, failMessage>>
                  \/ /\ ~ok
                     /\ Catch(<<"Failed to create check run:", "HttpError">>)
                     /\ UNCHANGED pullIdx
  /\ UNCHANGED <<processArch, acquired, pathCall, runUrl, commentBody, stdout,
                 runNo, versionInput, pulls, result, exitCode, existingComment, outputs,
                 warnings, console, reported, decided, cache, github, published>>
  /\ TrackFailures

\* a lookup that takes the listing for good although the call has failed
LookupIgnoringFailure(ok, all) == FirstWithMarker(ListComments(all))

\* findExistingComment (index.ts 216-230): the first comment of the listing that holds
\* the marker, and null when there is none or when the listing has failed
LookupResult(ok, all) == IF ok THEN FirstWithMarker(ListComments(all)) ELSE NoComment

\* run.ts 305, findExistingComment (index.ts 210-231)
FindExistingComment ==
  /\ pc = "findComment"
  /\ LET pr == pulls[pullIdx]
     IN  \E ok \in BOOLEAN :
           /\ log' = Append(log, Call("issues.listComments", pr, 0, ok))
           /\ existingComment' = LookupResult(ok, comments[pr])
           /\ warnings' = IF ok THEN warnings ELSE warnings + 1
  /\ pc' = "writeComment"
  /\ UNCHANGED <<processArch, acquired, pathCall, runUrl, commentBody, stdout,
                 runNo, versionInput, pulls, pullIdx, result, exitCode, checkRun, outputs,
                 failed, failMessage, console, reported, decided, cache, github, published>>
  /\ TrackFailures

\* issues.updateComment: the comment with that id gets the new body
UpdateComment(all, id, body) ==
  [p \in DOMAIN all |->
     [i \in 1..Len(all[p]) |->
        IF all[p][i].id = id THEN [all[p][i] EXCEPT !.hasBody = TRUE, !.body = body]
        ELSE all[p][i]]]

CommentExists(all, id) == \E p \in DOMAIN all : \E i \in 1..Len(all[p]) : all[p][i].id = id

\* issues.createComment: a new comment at the end of the PR
CreateComment(all, pr, id, body) ==
  [all EXCEPT ![pr] = Append(@, [id |-> id, hasBody |-> TRUE, body |-> body])]

\* run.ts 306-315, createOrUpdateComment (index.ts 300-329)
CreateOrUpdateComment ==
  /\ pc = "writeComment"
  /\ commentBody' = formatComment(result, runUrl)
  /\ LET pr == pulls[pullIdx]
         existingCommentId == OptionalId(existingComment)
     IN  \/ /\ IsTruthyId(existingCommentId)
            /\ \/ /\ CommentExists(comments, existingCommentId.value)
                  /\ log' = Append(log, Call("issues.updateComment", pr, existingCommentId.value, TRUE))
                  /\ comments' = UpdateComment(comments, existingCommentId.value, commentBody')
                  /\ pullIdx' = pullIdx + 1
                  /\ pc' = IF pullIdx < Len(pulls) THEN "findComment" ELSE "setOutputs"
                  /\ published' = [published EXCEPT ![pr] = @ + 1]
                  /\ UNCHANGED <<nextId, failed, failMessage>>
               \/ /\ log' = Append(log, Call("issues.updateComment", pr, existingCommentId.value, FALSE))
                  /\ Catch(<<"Failed to update comment:", "HttpError">>)
                  /\ UNCHANGED <<github, pullIdx, published>>
         \/ /\ ~IsTruthyId(existingCommentId)
            /\ \/ /\ log' = Append(log, Call("issues.createComment", pr, nextId, TRUE))
                  /\ comments' = CreateComment(comments, pr, nextId, commentBody')
                  /\ nextId' = nextId + 1
                  /\ pullIdx' = pullIdx + 1
                  /\ pc' = IF pullIdx < Len(pulls) THEN "findComment" ELSE "setOutputs"
                  /\ published' = [published EXCEPT ![pr] = @ + 1]
                  /\ UNCHANGED <<failed, failMessage>>
               \/ /\ log' = Append(log, Call("issues.createComment", pr, 0, FALSE))
                  /\ Catch(<<"Failed to create comment:", "HttpError">>)
                  /\ UNCHANGED <<github, pullIdx, published>>
  /\ UNCHANGED <<processArch, acquired, pathCall, runUrl, stdout,
                 runNo, versionInput, pulls, result, exitCode, existingComment,
                 checkRun, outputs, warnings, console, reported, decided, cache>>
  /\ TrackFailures

\* outputs whose status follows the pass/fail decision of the run
OutputsWithRunStatus(res) ==
  [set |-> TRUE,
   violationsCount |-> Len(res.violations),
   errorCount |-> res.summary.errorCount,
   warningCount |-> res.summary.warningCount,
   status |-> IF Len(res.violations) > 0 THEN "failure" ELSE "success"]

\* the four core.setOutput calls (run.ts 321-325)
OutputsOf(res) ==
  [set |-> TRUE,
   violationsCount |-> Len(res.violations),
   errorCount |-> res.summary.errorCount,
   warningCount |-> res.summary.warningCount,
   status |-> IF res.summary.errorCount > 0 THEN "failure" ELSE "success"]

\* run.ts 321-325: the four workflow outputs
SetOutputs ==
  /\ pc = "setOutputs"
  /\ outputs' = OutputsOf(result)
  /\ pc' = "decide"
  /\ UNCHANGED <<processArch, acquired, pathCall, runUrl, commentBody, stdout,
                 runNo, versionInput, pulls, pullIdx, result, exitCode, existingComment,
                 checkRun, failed, failMessage, warnings, console, reported, decided, log,
                 cache, github, initial, apiFailed, published>>

\* the message of run.ts 331
FailureMessage(res) ==
  <<"ModularGuard analysis found", ToString(Len(res.violations)), "violation(s):",
    ToString(res.summary.errorCount), "error(s) and",
    ToString(res.summary.warningCount), "warning(s)">>

\* the policy of the earlier version (run.ts 128-133): only errors fail the run
ShouldFailOnErrorsOnly(res) == res.summary.errorCount > 0

\* run.ts 327-335: whether the run is to fail
ShouldFail(res) == Len(res.violations) > 0

\* run.ts 327-335: the pass/fail decision
Decide ==
  /\ pc = "decide"
  /\ IF ShouldFail(result)
     THEN /\ failed' = failed + 1
          /\ failMessage' = FailureMessage(result)
     ELSE UNCHANGED <<failed, failMessage>>
  /\ decided' = TRUE
  /\ pc' = "done"
  /\ UNCHANGED <<processArch, acquired, pathCall, runUrl, commentBody, stdout,
                 runNo, versionInput, pulls, pullIdx, result, exitCode, existingComment,
                 checkRun, outputs, warnings, console, reported, log, cache, github,
                 initial, apiFailed, published>>

\* the workflow runs the action again (a later commit or a re-run): GitHub and the
\* tool cache keep their state, everything else starts afresh
StartRun ==
  /\ pc = "done"
  /\ runNo < MaxRuns
  /\ runNo' = runNo + 1
  /\ pc' = "entry"
  /\ versionInput' = ""
  /\ pulls' = <<>>
  /\ pullIdx' = 0
  /\ result' = NoResult
  /\ exitCode' = -1
  /\ stdout' = NoStdout
  /\ existingComment' = NoComment
  /\ checkRun' = NoCheckRun
  /\ outputs' = NoOutputs
  /\ failed' = 0
  /\ failMessage' = <<>>
  /\ warnings' = 0
  /\ console' = <<>>
  /\ reported' = FALSE
  /\ decided' = FALSE
  /\ log' = <<>>
  /\ commentBody' = <<>>
  /\ processArch' = ""
  /\ UNCHANGED <<acquired, pathCall, runUrl, cache, github, initial, apiFailed, published>>

\* what the binary prints in the runs of SpecRuns
RerunStdouts ==
  {Stdout("json", TRUE, TRUE, TRUE, 1, 0, 1), Stdout("empty", FALSE, FALSE, FALSE, 0, 0, 0)}

Steps(outs) ==
  \/ Entry
  \/ ListPulls
  \/ Download
  \/ Execute(outs)
  \/ CreateCheckRun
  \/ FindExistingComment
  \/ CreateOrUpdateComment
  \/ SetOutputs
  \/ Decide

Next == Steps(Stdouts)

\* one run of the action
Spec == Init /\ [][Next]_vars

NextRuns == Steps(RerunStdouts) \/ StartRun

\* consecutive runs of the action on the same repository and runner
SpecRuns == Init /\ [][NextRuns]_vars

(***************************************************************************)
(* formatComment on its own: the formatter is applied to a result and a    *)
(* run URL drawn from the sets below.                                      *)
(***************************************************************************)
RelativePath == [abs |-> FALSE, segs |-> <<<<"src">>, <<"a.csproj">>>>]

LongDescription == Repeat("x", 99) \o <<"\n", "y", "z">>

\* violations as the formatter can be given them: severities of every kind, short,
\* multi-line, over-long and '|'-holding descriptions, suggestions present, empty
\* and absent
FormatViolations ==
  {[severity |-> "Error", projectName |-> "Orders.Api", invalidReference |-> "Shared.Infra",
    ruleName |-> "NoCrossModule", description |-> <<"b", "a", "d">>,
    suggestion |-> [defined |-> TRUE, value |-> <<"f", "i", "x">>],
    filePath |-> RelativePath, lineNumber |-> 1, columnNumber |-> 1],
   [severity |-> "Warning", projectName |-> "Billing.Core", invalidReference |-> "Orders.Api",
    ruleName |-> "NoCrossModule", description |-> <<"n", "o", "\n", "r", "e", "f">>,
    suggestion |-> NoSuggestion,
    filePath |-> RelativePath, lineNumber |-> 2, columnNumber |-> 1],
   [severity |-> "error", projectName |-> "Orders.Api", invalidReference |-> "Billing.Core",
    ruleName |-> "NoCrossModule", description |-> LongDescription,
    suggestion |-> [defined |-> TRUE, value |-> <<>>],
    filePath |-> RelativePath, lineNumber |-> 3, columnNumber |-> 1],
   [severity |-> "Info", projectName |-> "Shared.Infra", invalidReference |-> "Orders.Api",
    ruleName |-> "NoCrossModule", description |-> <<"a", "|", "b">>,
    suggestion |-> [defined |-> TRUE, value |-> <<"u", "s", "e">>],
    filePath |-> RelativePath, lineNumber |-> 4, columnNumber |-> 1]}

RECURSIVE SeqsUpTo(_, _)
SeqsUpTo(set, n) ==
  IF n = 0 THEN {<<>>}
  ELSE SeqsUpTo(set, n - 1)
         \cup {Append(q, x) : q \in {r \in SeqsUpTo(set, n - 1) : Len(r) = n - 1}, x \in set}

FormatResults ==
  {[summary |-> Summary(e, w), violations |-> vs, parsed |-> TRUE] :
     e \in Counts, w \in Counts, vs \in SeqsUpTo(FormatViolations, MaxRows)}

\* the optional runUrl argument: absent, the empty string, a URL
RunUrls ==
  {[defined |-> FALSE, value |-> Undefined], [defined |-> TRUE, value |-> ""],
   [defined |-> TRUE, value |-> RunUrl]}

FormatInit ==
  /\ pc = "format"
  /\ result \in FormatResults
  /\ runUrl \in RunUrls
  /\ commentBody = <<>>
  /\ pathCall = NoPathCall
  /\ processArch = ""
  /\ runNo = 1
  /\ versionInput = ""
  /\ pulls = <<>>
  /\ pullIdx = 0
  /\ exitCode = -1
  /\ stdout = NoStdout
  /\ existingComment = NoComment
  /\ comments = [p \in PRs |-> <<>>]
  /\ nextId = 1
  /\ cache = {}
  /\ acquired = {}
  /\ checkRun = NoCheckRun
  /\ outputs = NoOutputs
  /\ failed = 0
  /\ failMessage = <<>>
  /\ warnings = 0
  /\ console = <<>>
  /\ reported = FALSE
  /\ decided = FALSE
  /\ log = <<>>
  /\ initial = [p \in PRs |-> <<>>]
  /\ apiFailed = FALSE
  /\ published = [p \in PRs |-> 0]

\* one call of formatComment(result, runUrl)
Format ==
  /\ pc = "format"
  /\ commentBody' = formatComment(result, runUrl)
  /\ pc' = "formatted"
  /\ UNCHANGED <<runNo, versionInput, pulls, pullIdx, result, exitCode, stdout,
                 existingComment, comments, nextId, cache, checkRun, outputs, failed,
                 failMessage, warnings, console, reported, decided, log, runUrl, pathCall,
                 processArch, acquired, initial, apiFailed, published>>

\* the formatted body is posted as a comment of a pull request, and the lookup of a
\* later run lists the comments of that pull request (index.ts 216-226)
PostAndFind ==
  /\ pc = "formatted"
  /\ comments' = CreateComment(comments, 1, nextId, commentBody)
  /\ nextId' = nextId + 1
  /\ existingComment' = LookupResult(TRUE, comments'[1])
  /\ pc' = "found"
  /\ UNCHANGED <<runNo, versionInput, pulls, pullIdx, result, exitCode, stdout, cache,
                 checkRun, outputs, failed, failMessage, warnings, console, reported,
                 decided, log, runUrl, commentBody, pathCall, processArch, acquired,
                 initial, apiFailed, published>>

NextFormat == Format \/ PostAndFind

SpecFormat == FormatInit /\ [][NextFormat]_vars

(***************************************************************************)
(* toWorkspaceRelativePath on its own: the function is applied to a path   *)
(* and a root drawn from the sets below, and then to its own return value. *)
(***************************************************************************)
\* '/'-separated segments: plain names, '..', and names with '\'-separated parts
PathSegments ==
  {<<"ws">>, <<"src">>, <<"..">>, <<"src", "a.cs">>, <<"lib", "..", "a.cs">>}

\* absolute and relative paths, inside and outside of the roots
InputPaths ==
  {[abs |-> a, segs |-> segs] : a \in BOOLEAN, segs \in SeqsUpTo(PathSegments, MaxSegs)}

\* the workspace root: the working directory of the action, or a directory below it
Roots == {WorkspaceRoot, [abs |-> TRUE, segs |-> <<<<"ws">>, <<"src">>>>]}

PathInit ==
  /\ pc = "normalize"
  /\ \E p \in InputPaths, root \in Roots :
       pathCall = [absolutePath |-> p, workspaceRoot |-> root, returned |-> <<>>]
  /\ result = NoResult
  /\ runUrl = [defined |-> TRUE, value |-> RunUrl]
  /\ commentBody = <<>>
  /\ processArch = ""
  /\ runNo = 1
  /\ versionInput = ""
  /\ pulls = <<>>
  /\ pullIdx = 0
  /\ exitCode = -1
  /\ stdout = NoStdout
  /\ existingComment = NoComment
  /\ comments = [p \in PRs |-> <<>>]
  /\ nextId = 1
  /\ cache = {}
  /\ acquired = {}
  /\ checkRun = NoCheckRun
  /\ outputs = NoOutputs
  /\ failed = 0
  /\ failMessage = <<>>
  /\ warnings = 0
  /\ console = <<>>
  /\ reported = FALSE
  /\ decided = FALSE
  /\ log = <<>>
  /\ initial = [p \in PRs |-> <<>>]
  /\ apiFailed = FALSE
  /\ published = [p \in PRs |-> 0]

pathRest == <<runNo, versionInput, pulls, pullIdx, result, exitCode, stdout, existingComment,
              comments, nextId, cache, checkRun, outputs, failed, failMessage, warnings,
              console, reported, decided, log, runUrl, commentBody, processArch, acquired,
              initial, apiFailed, published>>

\* toWorkspaceRelativePath(absolutePath, workspaceRoot)
Normalize ==
  /\ pc = "normalize"
  /\ pathCall' = [pathCall EXCEPT !.returned =
                    <<ToWorkspaceRelativePath(pathCall.absolutePath, pathCall.workspaceRoot)>>]
  /\ pc' = "renormalize"
  /\ UNCHANGED pathRest

\* toWorkspaceRelativePath(returned, workspaceRoot): the function on its own output
Renormalize ==
  /\ pc = "renormalize"
  /\ pathCall' = [pathCall EXCEPT !.returned =
                    Append(@, ToWorkspaceRelativePath(@[1], pathCall.workspaceRoot))]
  /\ pc' = "normalized"
  /\ UNCHANGED pathRest

NextPath == Normalize \/ Renormalize

SpecPath == PathInit /\ [][NextPath]_vars

(***************************************************************************)
(* Properties.                                                             *)
(***************************************************************************)
Last(seq) == seq[Len(seq)]

CallsOf(ops) == {i \in 1..Len(log) : log[i].op \in ops}

PublicationOps ==
  {"checks.create", "issues.listComments", "issues.updateComment", "issues.createComment"}

WriteOps == {"issues.updateComment", "issues.createComment"}

\* the listing of the associated pull requests has succeeded in this run
Listed == \E i \in 1..Len(log) : log[i].op = "repos.listPullRequestsAssociatedWithCommit" /\ log[i].ok

\* the entry point has caught an exception of this run
Caught == failed > 0 /\ ~decided

\* the run has ended, none of its calls has failed and nothing has been thrown
EndedClean == pc = "done" /\ ~Caught /\ \A i \in 1..Len(log) : log[i].ok

\* C1: in a run in which discovery, acquisition, execution and every publication call
\* succeed, setFailed is called if and only if the result has at least one violation
\* (warnings alone fail the run, no violation passes it), it is called once, and its
\* message carries the error count and the warning count of the summary.
C1_FailedIffViolations ==
  (EndedClean /\ result.parsed) =>
    /\ decided
    /\ (failed > 0) <=> (Len(result.violations) > 0)
    /\ failed <= 1
    /\ failed = 1 =>
         /\ Len(failMessage) = 7
         /\ failMessage[2] = ToString(Len(result.violations))
         /\ failMessage[4] = ToString(result.summary.errorCount)
         /\ failMessage[5] = "error(s) and"
         /\ failMessage[6] = ToString(result.summary.warningCount)
         /\ failMessage[7] = "warning(s)"

\* a warnings-only result has failed a run whose calls all succeeded
C1_Witness ==
  /\ EndedClean /\ decided /\ failed = 1
  /\ result.summary.errorCount = 0 /\ result.summary.warningCount = 1
  /\ Len(result.violations) = 1 /\ result.violations[1].severity = "Warning"
  /\ Len(pulls) > 0

\* C2: whenever the result reports error-level violations (summary.errorCount > 0) the
\* run that processed it is marked failed, whatever the violations list holds.
C2_ErrorsFailTheRun ==
  (pc = "done" /\ result.parsed /\ result.summary.errorCount > 0) => failed > 0

\* C3: with zero associated pull requests the run is no error and is not cut short: it
\* never issues a check-run or comment call, and it ends either with the console
\* report, the outputs and the pass/fail decision all made, or on a fatal acquisition or
\* execution error.
C3_NoPullRequests ==
  (Listed /\ pulls = <<>>) =>
    /\ CallsOf(PublicationOps) = {}
    /\ pc \notin {"checkRun", "findComment", "writeComment"}
    /\ checkRun = NoCheckRun
    /\ (pc = "done" /\ result.parsed) => (reported /\ outputs.set /\ decided)
    /\ (pc = "done" /\ ~result.parsed) =>
         /\ failed = 1
         /\ failMessage[1] \in {"Unsupported platform or architecture",
                                "Failed to fetch latest ModularGuard version",
                                "Failed to download ModularGuard",
                                "Failed to execute ModularGuard",
                                "ModularGuard produced no output",
                                "Failed to parse ModularGuard output:"}

\* a run without pull requests has run the binary, reported, set the outputs and decided
C3_Witness ==
  /\ Listed /\ pulls = <<>> /\ pc = "done"
  /\ CallsOf({"exec"}) # {} /\ CallsOf({"tc.downloadTool"}) # {}
  /\ reported /\ outputs.set /\ decided /\ failed = 1

\* C4: the four outputs are set and the pass/fail decision is made in every run whose
\* analysis produced a result, also when check-run creation or a comment create/update
\* has failed.
C4_OutputsAlwaysSet ==
  (pc = "done" /\ result.parsed) => (outputs.set /\ decided)

\* C5: in PR mode a failed check-run creation does not block comment publication: when
\* the run has ended, every associated PR has had its comment lookup and its
\* create-or-update call.
C5_CheckRunFailureDoesNotBlock ==
  (pc = "done" /\ \E i \in CallsOf({"checks.create"}) : ~log[i].ok) =>
    \A k \in 1..Len(pulls) :
      /\ \E i \in CallsOf({"issues.listComments"}) : log[i].pr = pulls[k]
      /\ \E i \in CallsOf(WriteOps) : log[i].pr = pulls[k]

\* C6: comment publication is independent per pull request: when the run has ended and
\* the create/update call of one PR has failed, every other associated PR has still had
\* its lookup and its create-or-update call.
C6_IndependentPerPullRequest ==
  (pc = "done" /\ \E i \in CallsOf(WriteOps) : ~log[i].ok) =>
    \A k \in 1..Len(pulls) :
      /\ \E i \in CallsOf({"issues.listComments"}) : log[i].pr = pulls[k]
      /\ \E i \in CallsOf(WriteOps) : log[i].pr = pulls[k]

MarkerCount(list) ==
  Cardinality({i \in 1..Len(list) : list[i].hasBody /\ BodyIncludesMarker(list[i].body)})

FailedListings == {i \in CallsOf({"issues.listComments"}) : ~log[i].ok}

\* C7: a failed listing of the comments of a PR does not abort the run: one warning is
\* logged per failed listing, the lookup yields no existing comment, and the next call
\* of the run is a create-comment call (never an update) for that same PR, also when
\* the PR already holds a marker comment.
C7_LookupFailureCreates ==
  /\ warnings = Cardinality(FailedListings)
  /\ \A i \in FailedListings :
       IF i = Len(log)
       THEN pc = "writeComment" /\ existingComment = NoComment /\ failed = 0
       ELSE log[i + 1].op = "issues.createComment" /\ log[i + 1].pr = log[i].pr

\* the listing of a PR that holds a marker comment has failed, and the run has created
\* a second marker comment on it
C7_Witness ==
  \E i \in FailedListings :
    /\ i < Len(log) /\ log[i + 1].op = "issues.createComment" /\ log[i + 1].ok
    /\ MarkerCount(ListComments(initial[log[i].pr])) = 1
    /\ MarkerCount(comments[log[i].pr]) = 2
    /\ warnings = 1

\* C8: starting from a PR without marker comment, after any number of runs that
\* published to it and in which every call has succeeded, the PR holds exactly one
\* comment with the marker, however many other comments it has.
C8_IdempotentUpsert ==
  \A p \in PRs :
    (pc = "done" /\ ~apiFailed /\ MarkerCount(initial[p]) = 0 /\ published[p] >= 1)
      => MarkerCount(comments[p]) = 1

WritesFor(pr) == {i \in CallsOf(WriteOps) : log[i].pr = pr}

\* C9: for each PR processed exactly one of update-comment and create-comment is
\* issued, and it is the update exactly when the lookup resolved an existing comment
\* id, whatever that id is.
C9_UpdateIffResolved ==
  /\ \A k \in 1..Len(pulls) :
       /\ k < pullIdx => Cardinality(WritesFor(pulls[k])) = 1
       /\ k = pullIdx => Cardinality(WritesFor(pulls[k])) <= 1
       /\ k > pullIdx => Cardinality(WritesFor(pulls[k])) = 0
  /\ (Len(log) > 0 /\ Last(log).op \in WriteOps) =>
       ((Last(log).op = "issues.updateComment") <=> ~existingComment.isNull)

NoteLines(summary) ==
  {i \in 1..Len(summary) :
     summary[i] # <<>> /\ summary[i][1] = "Note: Only showing the first 50 annotations."}

\* C10: for a result with n violations the check-run payload carries exactly
\* min(n, 50) annotations, the projections of the first min(n, 50) violations in their
\* order; its summary has one sentence giving n - 50 as the number not shown when
\* n > 50, and no such sentence when n <= 50.
C10_AnnotationsCapped ==
  checkRun.sent =>
    LET n == Len(result.violations)
        a == checkRun.annotations
    IN  /\ Len(a) = Min(n, 50)
        /\ \A i \in 1..Len(a) :
             /\ a[i].start_line = result.violations[i].lineNumber
             /\ a[i].end_line = result.violations[i].lineNumber
             /\ a[i].start_column = result.violations[i].columnNumber
             /\ a[i].path = result.violations[i].filePath
             /\ a[i].message = result.violations[i].description
        /\ n > 50 => /\ Cardinality(NoteLines(checkRun.summary)) = 1
                     /\ \A i \in NoteLines(checkRun.summary) :
                          checkRun.summary[i][2] = ToString(n - 50)
        /\ n <= 50 => NoteLines(checkRun.summary) = {}

\* a check run for 52 violations: 50 annotations, 2 not shown
C10_Witness ==
  /\ checkRun.sent /\ Len(result.violations) = 52
  /\ Len(checkRun.annotations) = 50
  /\ checkRun.annotations[50].start_line = 50
  /\ NoteLines(checkRun.summary) # {}

\* C11: the conclusion of the check run is 'failure' exactly when summary.errorCount is
\* greater than zero and 'success' otherwise, whatever the warning count and the
\* violations list are; a warnings-only result gets 'success' although it fails the run.
C11_ConclusionFromErrorCount ==
  checkRun.sent =>
    /\ checkRun.conclusion \in {"failure", "success"}
    /\ (checkRun.conclusion = "failure") <=> (result.summary.errorCount > 0)

\* a warnings-only result: the check run concludes 'success' and the run has failed
C11_Witness ==
  /\ checkRun.sent /\ checkRun.conclusion = "success"
  /\ result.summary.errorCount = 0 /\ result.summary.warningCount > 0
  /\ Len(result.violations) > 0
  /\ pc = "done" /\ decided /\ failed = 1

\* C12: whenever the outputs are set, status is 'failure' exactly when
\* summary.errorCount is greater than zero and 'success' otherwise (warnings do not
\* count), violations-count is the length of the violations list, and error-count and
\* warning-count are the counters of the summary.
C12_OutputsFromResult ==
  outputs.set =>
    /\ outputs.status \in {"failure", "success"}
    /\ (outputs.status = "failure") <=> (result.summary.errorCount > 0)
    /\ outputs.violationsCount = Len(result.violations)
    /\ outputs.errorCount = result.summary.errorCount
    /\ outputs.warningCount = result.summary.warningCount

\* outputs of a warnings-only result with 52 violations: status 'success', the run failed
C12_Witness ==
  /\ outputs.set /\ outputs.status = "success" /\ outputs.violationsCount = 52
  /\ outputs.errorCount = 0 /\ outputs.warningCount = 1
  /\ pc = "done" /\ failed = 1

\* the level the severity of a violation is to give
ExpectedLevel(severity) ==
  CASE severity \in {"error", "Error", "ERROR"} -> "failure"
    [] severity \in {"warning", "Warning", "WARNING"} -> "warning"
    [] OTHER -> "notice"

\* C13: the level of each annotation follows the severity of its violation without
\* regard to letter case ('error' gives 'failure', 'warning' gives 'warning', every
\* other value, a missing severity included, gives 'notice'), and no severity fails the
\* run: in PR mode a run that ends without a failed call has sent its check run.
C13_SeverityToLevel ==
  /\ checkRun.sent =>
       \A i \in 1..Len(checkRun.annotations) :
         checkRun.annotations[i].annotation_level = ExpectedLevel(result.violations[i].severity)
  /\ (pc = "done" /\ result.parsed /\ Len(pulls) > 0 /\ \A i \in 1..Len(log) : log[i].ok)
       => checkRun.sent

\* the lines of a body that are equal to one of the given lines
LinesAmong(body, lines) == {i \in 1..Len(body) : body[i] \in lines}

StatusFailed == <<":x:", "**Analysis Failed**">>

StatusPassedWithWarnings == <<":warning:", "**Analysis Passed with Warnings**">>

StatusPassed == <<":white_check_mark:", "**Analysis Passed**">>

\* the lines of a body that start with the given label
LabelLines(body, label) == {i \in 1..Len(body) : body[i] # <<>> /\ body[i][1] = label}

\* the body has exactly one line with that label, and it gives that number
RendersCounter(body, label, n) ==
  /\ Cardinality(LabelLines(body, label)) = 1
  /\ \A i \in LabelLines(body, label) : body[i] = <<label, ToString(n)>>

\* C14: the comment body holds exactly one of the three status lines: the failed one
\* when errorCount > 0 (whatever the warnings), else the passed-with-warnings one when
\* warningCount > 0, else the passed one; and the four counters of the summary are
\* rendered once each, also when they are zero.
C14_StatusLineAndCounters ==
  pc = "formatted" =>
    LET summary == result.summary
        status == LinesAmong(commentBody, {StatusFailed, StatusPassedWithWarnings, StatusPassed})
    IN  /\ Cardinality(status) = 1
        /\ \A i \in status :
             commentBody[i] = IF summary.errorCount > 0 THEN StatusFailed
                              ELSE IF summary.warningCount > 0 THEN StatusPassedWithWarnings
                              ELSE StatusPassed
        /\ RendersCounter(commentBody, "- **Total Modules:**", summary.totalModules)
        /\ RendersCounter(commentBody, "- **Total Projects:**", summary.totalProjects)
        /\ RendersCounter(commentBody, "- **Errors:**", summary.errorCount)
        /\ RendersCounter(commentBody, "- **Warnings:**", summary.warningCount)

\* a result with errors and warnings is rendered as failed, one without errors but
\* with warnings would not be: here the errors win, and no violation is listed
C14_Witness ==
  /\ pc = "formatted"
  /\ result.summary.errorCount > 0 /\ result.summary.warningCount > 0
  /\ result.violations = <<>>
  /\ LinesAmong(commentBody, {StatusFailed}) # {}
  /\ LinesAmong(commentBody, {StatusPassedWithWarnings, StatusPassed}) = {}

HeaderRow ==
  <<"|", "Severity", "|", "File:Line", "|", "Project", "|", "Invalid Reference", "|",
    "Description", "|">>

DelimiterRow == <<"|", "---", "|", "---", "|", "---", "|", "---", "|", "---", "|">>

\* the lines of a body that belong to a table: their first token is the column delimiter
TableLines(body) == {i \in 1..Len(body) : body[i] # <<>> /\ body[i][1] = "|"}

\* the row shows the violation: icon and label, path:line as code, project, reference
\* and the description from its first character on
RowShows(row, v) ==
  LET path == PathText(v.filePath)
      k == 5 + Len(path)
      shown == Min(Len(v.description), 100)
  IN  /\ Len(row) = k + 9 + shown
      /\ row[1] = "|"
      /\ row[2] \in {":red_circle:", ":warning:"}
      /\ v.severity = "Error" => row[2] = ":red_circle:"
      /\ v.severity = "Warning" => row[2] = ":warning:"
      /\ row[3] = v.severity
      /\ row[4] = "|"
      /\ row[5] = "<code>"
      /\ SubSeq(row, 6, k) = path
      /\ row[k + 1] = ":"
      /\ row[k + 2] = ToString(v.lineNumber)
      /\ row[k + 3] = "</code>"
      /\ row[k + 4] = "|"
      /\ row[k + 5] = v.projectName
      /\ row[k + 6] = "|"
      /\ row[k + 7] = v.invalidReference
      /\ row[k + 8] = "|"
      /\ \A j \in 1..shown :
           row[k + 8 + j] = IF v.description[j] = "\n" THEN " " ELSE v.description[j]
      /\ row[k + 9 + shown] = "|"

\* C15: for an empty violations list the body has no violations section at all, neither
\* heading nor table header; for n > 0 violations it has the heading, the fixed
\* five-column header and exactly n data rows, the i-th row showing the i-th violation:
\* severity icon and label, path:line in code formatting, project name, invalid
\* reference and description.
C15_ViolationsTable ==
  pc = "formatted" =>
    LET n == Len(result.violations)
        headings == LinesAmong(commentBody, {<<"### Violations">>})
    IN  /\ n = 0 => headings = {} /\ TableLines(commentBody) = {}
        /\ n > 0 =>
             /\ Cardinality(headings) = 1
             /\ Cardinality(TableLines(commentBody)) = n + 2
             /\ \A h \in headings :
                  /\ commentBody[h + 1] = <<>>
                  /\ commentBody[h + 2] = HeaderRow
                  /\ commentBody[h + 3] = DelimiterRow
                  /\ \A i \in 1..n : RowShows(commentBody[h + 3 + i], result.violations[i])
                  /\ commentBody[h + 4 + n] = <<>>

\* a table of two rows in the order of the list: the Info violation of line 4 first,
\* the Error violation of line 1 second
C15_Witness ==
  /\ pc = "formatted"
  /\ Len(result.violations) = 2
  /\ result.violations[1].severity = "Info" /\ result.violations[2].severity = "Error"
  /\ \E h \in LinesAmong(commentBody, {<<"### Violations">>}) :
       /\ commentBody[h + 4][3] = "Info" /\ commentBody[h + 4][2] = ":warning:"
       /\ commentBody[h + 5][3] = "Error" /\ commentBody[h + 5][2] = ":red_circle:"
  /\ Cardinality(TableLines(commentBody)) = 4

\* the positions of the violations that carry a non-empty suggestion, in list order
Suggesting(violations) ==
  SelectSeq([i \in 1..Len(violations) |-> i],
            LAMBDA i : violations[i].suggestion.defined /\ violations[i].suggestion.value # <<>>)

\* C16: the body has a suggestions section exactly when at least one violation carries
\* a non-empty suggestion; the section lists every such violation, in list order, as
\* 'project -> reference' followed by the suggestion text as it is, and lists no
\* violation without suggestion.
C16_SuggestionsSection ==
  pc = "formatted" =>
    LET violations == result.violations
        idx == Suggesting(violations)
        details == LinesAmong(commentBody, {<<"<details>">>})
    IN  /\ (details # {}) <=> (Len(idx) > 0)
        /\ Cardinality(details) <= 1
        /\ Cardinality(LabelLines(commentBody, "**")) = Len(idx)
        /\ \A d \in details :
             /\ commentBody[d + 1] = <<"<summary>", "Suggestions", "</summary>">>
             /\ commentBody[d + 2] = <<>>
             /\ \A k \in 1..Len(idx) :
                  /\ commentBody[d + 3 * k] =
                       <<"**", violations[idx[k]].projectName, "->",
                         violations[idx[k]].invalidReference, "**">>
                  /\ commentBody[d + 3 * k + 1] = violations[idx[k]].suggestion.value
                  /\ commentBody[d + 3 * k + 2] = <<>>
             /\ commentBody[d + 3 * Len(idx) + 3] = <<"</details>">>

\* of two violations the first has an empty suggestion and the second a real one: the
\* section lists the second only
C16_Witness ==
  /\ pc = "formatted"
  /\ Len(result.violations) = 2
  /\ result.violations[1].suggestion = [defined |-> TRUE, value |-> <<>>]
  /\ result.violations[2].suggestion.value = <<"u", "s", "e">>
  /\ \E d \in LinesAmong(commentBody, {<<"<details>">>}) :
       /\ commentBody[d + 3] = <<"**", "Shared.Infra", "->", "Orders.Api", "**">>
       /\ commentBody[d + 4] = <<"u", "s", "e">>
       /\ commentBody[d + 6] = <<"</details>">>

\* the description as the row shows it: what follows the four leading columns
RenderedDescription(row, v) == SubSeq(row, 15 + Len(PathText(v.filePath)), Len(row) - 1)

\* the description of every row is one line of at most 100 characters
DescriptionsBounded ==
  pc = "formatted" =>
    \A h \in LinesAmong(commentBody, {<<"### Violations">>}) :
      \A i \in 1..Len(result.violations) :
        LET shown == RenderedDescription(commentBody[h + 3 + i], result.violations[i])
        IN  /\ Len(shown) <= 100
            /\ \A j \in 1..Len(shown) : shown[j] # "\n"

\* every row is one line of exactly five columns: six column delimiters
RowsHaveFiveColumns ==
  pc = "formatted" =>
    \A h \in LinesAmong(commentBody, {<<"### Violations">>}) :
      \A i \in 1..Len(result.violations) :
        LET row == commentBody[h + 3 + i]
        IN  /\ Cardinality({j \in 1..Len(row) : row[j] = "|"}) = 6
            /\ \A j \in 1..Len(row) : row[j] # "\n"

\* C17: in every table row the rendered description is single-line and at most 100
\* characters long (line breaks replaced by spaces, then the first 100 characters), and
\* whatever the texts of the violation are the row stays one line of exactly five
\* columns.
C17_RowsKeepTheTable == DescriptionsBounded /\ RowsHaveFiveColumns

\* the lines of a body that are a link to the detailed results
LinkLinesOf(body) == LabelLines(body, "[View detailed results](")

\* C18: the body ends with a markdown link to the run URL exactly when a run URL is
\* passed to the formatter, and has no such link when none is passed (no argument, or
\* the empty string); the target of the link is the URL as it was passed.
C18_RunLink ==
  pc = "formatted" =>
    LET supplied == runUrl.defined /\ runUrl.value # ""
    IN  /\ supplied =>
             /\ LinkLinesOf(commentBody) = {Len(commentBody)}
             /\ Last(commentBody) = <<"[View detailed results](", runUrl.value, ")">>
             /\ commentBody[Len(commentBody) - 2] = <<"---">>
        /\ ~supplied =>
             /\ LinkLinesOf(commentBody) = {}
             /\ LinesAmong(commentBody, {<<"---">>}) = {}

\* a body with table and suggestions that ends with the link to the run
C18_Witness ==
  /\ pc = "formatted"
  /\ runUrl = [defined |-> TRUE, value |-> RunUrl]
  /\ LinesAmong(commentBody, {<<"</details>">>}) # {}
  /\ Last(commentBody) = <<"[View detailed results](", RunUrl, ")">>

\* C19: whether the run goes on after the execution of the binary depends on stdout
\* alone: it goes on exactly when stdout is non-empty, is JSON and the document has
\* summary, modules and violations; every other stdout ends the run with a fatal error,
\* and the exit code of the subprocess, zero or not, changes nothing.
C19_StdoutDecides ==
  exitCode # -1 =>
    LET complete == /\ stdout.kind = "json"
                    /\ stdout.hasSummary /\ stdout.hasModules /\ stdout.hasViolations
    IN  /\ result.parsed <=> complete
        /\ complete => /\ pc # "execute"
                       /\ reported
                       /\ result.summary = stdout.summary
                       /\ Len(result.violations) = Len(stdout.violations)
        /\ ~complete => /\ pc = "done" /\ Caught /\ failed = 1
                        /\ failMessage[1] \in {"ModularGuard produced no output",
                                               "Failed to parse ModularGuard output:"}
                        /\ CallsOf(PublicationOps) = {} /\ ~outputs.set

\* the binary has exited with 1 and printed a complete document: the run went on to
\* publish, set the outputs and decide
C19_Witness ==
  /\ exitCode = 1 /\ result.parsed /\ stdout.kind = "json"
  /\ Len(pulls) > 0 /\ checkRun.sent
  /\ pc = "done" /\ outputs.set /\ decided

\* the run has ended without reaching its pass/fail decision
Aborted == pc = "done" /\ ~decided

EntryErrors == {"Input required and not supplied: token", "GITHUB_SHA is required"}

AcquisitionErrors ==
  {"Unsupported platform or architecture", "Failed to fetch latest ModularGuard version",
   "Failed to download ModularGuard"}

ExecutionErrors ==
  {"Failed to execute ModularGuard", "ModularGuard produced no output",
   "Failed to parse ModularGuard output:"}

PublicationErrors ==
  {"TypeError:", "Failed to create check run:", "Failed to update comment:",
   "Failed to create comment:"}

\* the first words of the error a failed call raises
ErrorOf(op) ==
  CASE op = "repos.listPullRequestsAssociatedWithCommit" -> "HttpError"
    [] op = "repos.getLatestRelease" -> "Failed to fetch latest ModularGuard version"
    [] op = "tc.downloadTool" -> "Failed to download ModularGuard"
    [] op = "exec" -> "Failed to execute ModularGuard"
    [] op = "checks.create" -> "Failed to create check run:"
    [] op = "issues.updateComment" -> "Failed to update comment:"
    [] op = "issues.createComment" -> "Failed to create comment:"
    [] OTHER -> ""

\* C20: every fatal error (missing environment variable, unsupported platform, failed
\* download or extraction, failed spawn, empty, non-JSON or incomplete stdout) ends
\* the run at its step: no later step runs (after an acquisition error the binary is
\* never executed, after an execution or output error no check-run or comment call is
\* made), and the run is marked failed exactly once, with the message of that error.
C20_FatalErrorsAbort ==
  /\ failed <= 1
  /\ \A i \in 1..Len(log) :
       (~log[i].ok /\ log[i].op # "issues.listComments") =>
         /\ i = Len(log)
         /\ Aborted
         /\ failMessage[1] = ErrorOf(log[i].op)
  /\ Aborted =>
       /\ failed = 1
       /\ ~outputs.set
       /\ failMessage[1] \in EntryErrors \cup {"HttpError"} \cup AcquisitionErrors
                               \cup ExecutionErrors \cup PublicationErrors
       /\ failMessage[1] \in EntryErrors => log = <<>>
       /\ failMessage[1] \in AcquisitionErrors =>
            /\ CallsOf({"exec"}) = {} /\ exitCode = -1
            /\ CallsOf(PublicationOps) = {}
            /\ ~result.parsed
       /\ failMessage[1] \in ExecutionErrors =>
            /\ Last(log).op = "exec"
            /\ CallsOf(PublicationOps) = {}
            /\ ~result.parsed /\ ~reported /\ checkRun = NoCheckRun

\* in PR mode the archive was downloaded and could not be extracted: the run is failed
\* once with the acquisition error and the binary was never executed
C20_Witness ==
  /\ Aborted /\ failed = 1 /\ Len(pulls) > 0
  /\ failMessage = <<"Failed to download ModularGuard">>
  /\ Last(log).op = "tc.downloadTool" /\ Last(log).ok
  /\ CallsOf({"exec"}) = {}

\* every returned path is written with forward slashes only: no segment keeps a
\* backslash-separated part
ForwardSlashesOnly ==
  \A k \in 1..Len(pathCall.returned) :
    \A j \in 1..Len(pathCall.returned[k].segs) : Len(pathCall.returned[k].segs[j]) = 1

\* normalizing the returned path against the same root returns it unchanged
Idempotent == Len(pathCall.returned) = 2 => pathCall.returned[2] = pathCall.returned[1]

\* C21: for every path and workspace root, relative paths and paths outside of the
\* root included, the normalized path has forward slashes only, and normalizing it
\* again against the same root returns it unchanged.
C21_NormalizeIdempotent == ForwardSlashesOnly /\ Idempotent

\* this step is an acquisition for a version input and an architecture that an earlier
\* acquisition has downloaded and cached
AcquiresAgain ==
  pc = "download" /\ [version |-> versionInput, arch |-> processArch'] \in acquired

\* the step takes the binary from the cache: no call is made, and the run goes on to
\* the execution unless the platform of the runner is not supported
TakesCached ==
  /\ log' = log
  /\ cache' = cache
  /\ pc' = "execute" \/ failMessage' = <<"Unsupported platform or architecture">>

\* for a concrete version an acquisition after the first makes no network call
ConcreteVersionShortCircuits ==
  [][(AcquiresAgain /\ versionInput # "latest") => TakesCached]_vars

\* C22: once a run has acquired and cached the binary for a version input and an
\* architecture, every later acquisition with the same version input (a concrete
\* version or 'latest') and architecture takes the cached binary and makes no network
\* call, neither a release lookup nor a download.
C22_CacheShortCircuits == [][AcquiresAgain => TakesCached]_vars

\* the place of a call in the order of the steps
Stage(op) ==
  CASE op = "repos.listPullRequestsAssociatedWithCommit" -> 1
    [] op = "repos.getLatestRelease" -> 2
    [] op = "tc.downloadTool" -> 3
    [] op = "exec" -> 4
    [] op = "checks.create" -> 5
    [] OTHER -> 6

\* the calls of the comment loop, in the order they were made
CommentCalls == SelectSeq(log, LAMBDA c : Stage(c.op) = 6)

\* a call of one of the given operations has succeeded before position i of the log
Before(i, ops) == \E j \in 1..(i - 1) : log[j].op \in ops /\ log[j].ok

\* C23: the steps of a run happen one after another in a fixed order, each after the
\* previous one has completed: PR discovery, acquisition, execution, check-run
\* creation, then for each PR in listing order its lookup followed by its
\* create/update, then the outputs, then the pass/fail decision.
C23_StepsInOrder ==
  /\ \A i, j \in 1..Len(log) : i < j => Stage(log[i].op) <= Stage(log[j].op)
  /\ \A i, j \in 1..Len(log) :
       (i < j /\ Stage(log[i].op) < 6) => Stage(log[i].op) # Stage(log[j].op)
  /\ \A i \in 1..Len(log) :
       /\ Stage(log[i].op) = 1 => i = 1
       /\ Stage(log[i].op) \in {2, 3} =>
            Before(i, {"repos.listPullRequestsAssociatedWithCommit"})
       /\ (Stage(log[i].op) = 3 /\ versionInput = "latest") =>
            Before(i, {"repos.getLatestRelease"})
       /\ Stage(log[i].op) = 4 => Before(i, {"tc.downloadTool"})
       /\ Stage(log[i].op) = 5 => Before(i, {"exec"}) /\ result.parsed /\ reported
       /\ Stage(log[i].op) = 6 => Before(i, {"checks.create"})
  /\ Len(CommentCalls) <= 2 * Len(pulls)
  /\ \A m \in 1..Len(CommentCalls) :
       /\ CommentCalls[m].pr = pulls[(m + 1) \div 2]
       /\ (m % 2 = 1) <=> (CommentCalls[m].op = "issues.listComments")
       /\ (m % 2 = 0) <=> (CommentCalls[m].op \in WriteOps)
       /\ m < Len(CommentCalls) => (CommentCalls[m].ok \/ m % 2 = 1)
  /\ outputs.set =>
       /\ result.parsed /\ reported
       /\ Len(CommentCalls) = 2 * Len(pulls)
       /\ Len(pulls) > 0 => checkRun.sent
       /\ \A i \in 1..Len(log) : log[i].ok \/ log[i].op = "issues.listComments"
  /\ decided => outputs.set /\ pc = "done"

\* a run with two pull requests and version input 'latest' has made its nine calls in
\* the order of the steps, set the outputs and decided
C23_Witness ==
  /\ pc = "done" /\ decided /\ outputs.set /\ pulls = <<1, 2>>
  /\ Len(log) = 9
  /\ [i \in 1..9 |-> log[i].op] \in
       {<<"repos.listPullRequestsAssociatedWithCommit", "repos.getLatestRelease",
          "tc.downloadTool", "exec", "checks.create", "issues.listComments", w1,
          "issues.listComments", w2>> : w1 \in WriteOps, w2 \in WriteOps}
  /\ log[7].pr = 1 /\ log[9].pr = 2

\* the position of the first comment of a list that holds the marker
FirstMarkerIndex(list) ==
  CHOOSE i \in 1..Len(list) :
    /\ list[i].hasBody /\ BodyIncludesMarker(list[i].body)
    /\ \A j \in 1..(i - 1) : ~(list[j].hasBody /\ BodyIncludesMarker(list[j].body))

\* the listing of the current PR has succeeded and the PR has several marker comments
SeveralMarkersListed ==
  /\ pc = "writeComment"
  /\ Last(log).op = "issues.listComments" /\ Last(log).ok
  /\ MarkerCount(comments[pulls[pullIdx]]) >= 2

\* the lookup has returned the first marker comment, and the step writes to that
\* comment only
WritesFirstMatchOnly ==
  LET pr == pulls[pullIdx]
      all == comments[pr]
      f == FirstMarkerIndex(all)
  IN  /\ existingComment = [isNull |-> FALSE, id |-> all[f].id]
      /\ Len(comments'[pr]) = Len(all)
      /\ \A i \in 1..Len(all) : i # f => comments'[pr][i] = all[i]
      /\ \A q \in PRs : q # pr => comments'[q] = comments[q]
      /\ Last(log').op = "issues.updateComment" /\ Last(log').id = all[f].id
      /\ Last(log').ok => comments'[pr][f].body = commentBody'

\* the first marker comment is on the first page of the listing and its id is not 0
FirstMatchInReach ==
  LET all == comments[pulls[pullIdx]]
  IN  FirstMarkerIndex(all) <= PerPage /\ all[FirstMarkerIndex(all)].id # 0

\* first match only, where the listing reaches the first marker comment and its id is
\* not 0
FirstMatchOnlyInReach ==
  [][(SeveralMarkersListed /\ FirstMatchInReach) => WritesFirstMatchOnly]_vars

\* C24: when several comments of a PR hold the marker, the lookup returns exactly one,
\* the first in listing order (not the most recent), whoever wrote it and wherever in
\* its body the marker is, and the run updates that comment only and leaves every other
\* comment of the PR as it is.
C24_FirstMatchOnly == [][SeveralMarkersListed => WritesFirstMatchOnly]_vars

\* C25: for every result and run URL the body the formatter returns has the marker
\* as its first line, so the lookup of a later run finds a comment posted with that
\* body whenever the comment is in the listing.
C25_MarkerFirstLine ==
  /\ pc \in {"formatted", "found"} => (commentBody # <<>> /\ commentBody[1] = <<Marker>>)
  /\ pc = "found" =>
       /\ Last(comments[1]).body = commentBody
       /\ existingComment = [isNull |-> FALSE, id |-> Last(comments[1]).id]

\* the body of a result with violations, formatted without run URL, has been posted
\* and the lookup has found that comment
C25_Witness ==
  /\ pc = "found"
  /\ Len(result.violations) = 2 /\ ~runUrl.defined
  /\ Len(comments[1]) = 1 /\ comments[1][1].body[1] = <<Marker>>
  /\ existingComment = [isNull |-> FALSE, id |-> 1]

\* the table rows of the comment and the annotations of the check run of one result,
\* violation by violation: the positions that have both
Rendered ==
  IF checkRun.sent /\ commentBody # <<>> THEN 1..Len(checkRun.annotations) ELSE {}

\* the row of the i-th violation in the comment body
RowOf(i) ==
  LET h == CHOOSE k \in 1..Len(commentBody) : commentBody[k] = <<"### Violations">>
  IN  commentBody[h + 3 + i]

\* icon and level agree for the severities 'Error' and 'Warning' as the binary writes them
ConsistentForCanonicalSeverities ==
  \A i \in Rendered :
    result.violations[i].severity \in {"Error", "Warning"} =>
      /\ (RowOf(i)[2] = ":red_circle:") <=> (checkRun.annotations[i].annotation_level = "failure")
      /\ (RowOf(i)[2] = ":warning:") => (checkRun.annotations[i].annotation_level = "warning")

\* C26: the comment table and the check run classify the severity of a violation alike,
\* for every severity string: the row shows the error icon exactly when the annotation
\* of the same violation has level 'failure', and the warning icon only when the level
\* is 'warning'.
C26_IconMatchesLevel ==
  \A i \in Rendered :
    /\ (RowOf(i)[2] = ":red_circle:") <=> (checkRun.annotations[i].annotation_level = "failure")
    /\ (RowOf(i)[2] = ":warning:") => (checkRun.annotations[i].annotation_level = "warning")

====
